---- MODULE Spec2Model ----
(***************************************************************************)
(* Account-balance ledger of the finance application: the server actions   *)
(* createAccount, updateDefaultAccount (setDefaultAccount) and             *)
(* bulkDeleteTransactions (deleteTransactions) and the reads               *)
(* getUserAccounts, getDashboardData and getAccountWithTransactions over   *)
(* the Prisma store.                                                       *)
(* Every await of a store statement is one step of the calling process, so *)
(* that calls of different requests interleave between store statements.   *)
(***************************************************************************)
EXTENDS Integers, Sequences, FiniteSets, TLC

\* ------------------------------------------------------------- bounds
MaxAccounts == 2        \* account rows ever created
MaxTransactions == 2    \* transaction rows ever created
MaxAmount == 2          \* transaction amounts are 1..MaxAmount
NumProcs == 2           \* requests in flight at once
RaceTransactions == 3   \* transaction rows in the store two bulk deletes race on

Procs == 1..NumProcs
Users == {"u1", "u2"}
\* What auth() yields: the clerk id of a user with a row, of a caller without
\* a user row ("stranger"), or nothing ("none").
Creds == Users \cup {"stranger", "none"}
TxTypes == {"INCOME", "EXPENSE"}
AccountIds == 1..MaxAccounts
Amounts == 1..MaxAmount

\* ------------------------------------------------------------- strings
\* A string is a sequence of one-character strings.
Digits == <<"0", "1", "2", "3", "4", "5", "6", "7", "8", "9">>

IsDigit(c) == \E i \in 1..10 : Digits[i] = c

DigitVal(c) == (CHOOSE i \in 1..10 : Digits[i] = c) - 1

RECURSIVE DigitsValue(_)
DigitsValue(s) ==
    IF s = <<>> THEN 0
    ELSE 10 * DigitsValue(SubSeq(s, 1, Len(s) - 1)) + DigitVal(s[Len(s)])

RECURSIVE NatToString(_)
NatToString(n) ==
    IF n < 10 THEN <<Digits[n + 1]>>
    ELSE NatToString(n \div 10) \o <<Digits[(n % 10) + 1]>>

\* Number.prototype.toString and Decimal.prototype.valueOf of an integer.
NumberToString(n) == IF n < 0 THEN <<"-">> \o NatToString(-n) ELSE NatToString(n)

\* Length of the longest prefix of s made of digits.
RECURSIVE DigitPrefixLen(_)
DigitPrefixLen(s) ==
    IF s = <<>> \/ ~IsDigit(Head(s)) THEN 0 ELSE 1 + DigitPrefixLen(Tail(s))

\* parseFloat: an optional sign, then the longest numeric prefix; NaN when
\* there is none.  Trailing characters are ignored.
parseFloat(s) ==
    LET neg  == s # <<>> /\ Head(s) = "-"
        body == IF neg THEN Tail(s) ELSE s
        k    == DigitPrefixLen(body)
        v    == DigitsValue(SubSeq(body, 1, k))
    IN  IF k = 0 THEN [nan |-> TRUE, n |-> 0]
        ELSE [nan |-> FALSE, n |-> IF neg THEN -v ELSE v]

isNaN(x) == x.nan

\* The store's reading of a string given for a Decimal column: the whole
\* string must be a decimal literal.
ParseDecimal(s) ==
    LET neg  == s # <<>> /\ Head(s) = "-"
        body == IF neg THEN Tail(s) ELSE s
        v    == DigitsValue(body)
    IN  IF body = <<>> \/ DigitPrefixLen(body) # Len(body)
        THEN [ok |-> FALSE, n |-> 0]
        ELSE [ok |-> TRUE, n |-> IF neg THEN -v ELSE v]

\* ------------------------------------------------------------- JS values
\* A number, a string, a Prisma Decimal object (amount and balance columns
\* are read as Decimal objects) or undefined.
Num(n) == [t |-> "num", n |-> n, s |-> <<>>]
Str(s) == [t |-> "str", n |-> 0, s |-> s]
Dec(n) == [t |-> "dec", n |-> n, s |-> <<>>]
Undefined == [t |-> "undef", n |-> 0, s |-> <<>>]

\* ToPrimitive: a Decimal object has no Symbol.toPrimitive and its valueOf
\* returns its decimal string; numbers and strings are primitive already.
ToPrimitive(v) == IF v.t = "dec" THEN Str(NumberToString(v.n)) ELSE v

\* ToNumber of a primitive (only well-formed numeric strings arise here).
ToNumber(v) ==
    IF v.t = "num" THEN v.n
    ELSE IF v.t = "str" /\ ParseDecimal(v.s).ok THEN ParseDecimal(v.s).n
    ELSE 0

\* Unary minus: ToNumber(ToPrimitive(v)) negated.
JsNegate(v) == Num(-ToNumber(ToPrimitive(v)))

\* The + operator: both operands to primitives; if either is a string the
\* result is the concatenation of their strings, otherwise the numeric sum.
JsStringOf(v) == IF v.t = "str" THEN v.s ELSE NumberToString(v.n)

JsAdd(a, b) ==
    LET pa == ToPrimitive(a)
        pb == ToPrimitive(b)
    IN  IF pa.t = "str" \/ pb.t = "str"
        THEN Str(JsStringOf(pa) \o JsStringOf(pb))
        ELSE Num(pa.n + pb.n)

\* a || b
JsOr(a, b) ==
    IF a.t = "undef" \/ (a.t = "num" /\ a.n = 0) \/ (a.t = "str" /\ a.s = <<>>)
    THEN b ELSE a

\* ------------------------------------------------------------- store rows
\* Signed contribution of a live transaction to its account's balance.
Signed(tx) == IF tx.type = "INCOME" THEN tx.amount ELSE -tx.amount

RECURSIVE SumSigned(_)
SumSigned(S) ==
    IF S = {} THEN 0
    ELSE LET x == CHOOSE y \in S : TRUE IN Signed(x) + SumSigned(S \ {x})

\* A findMany without the userId filter.
FindAnyOwner(txs, ids, userId) == {tx \in txs : tx.id \in ids}

\* db.transaction.findMany({ where: { id: { in: ids }, userId } })
FindTransactions(txs, ids, userId) ==
    {tx \in txs : tx.id \in ids /\ tx.userId = userId}

\* A deleteMany that removes no row.
DeleteNothing(txs, ids, userId) == txs

\* tx.transaction.deleteMany({ where: { id: { in: ids }, userId } })
DeleteMany(txs, ids, userId) == txs \ FindTransactions(txs, ids, userId)

\* The rows of findMany arrive in an order the query does not fix.
Orderings(S) ==
    {q \in [1..Cardinality(S) -> S] : \A i, j \in 1..Cardinality(S) : i # j => q[i] # q[j]}

\* ------------------------------------------------------------- bulkDelete
\* change of one transaction (lines 88-91)
ChangeOf(tx) == IF tx.type = "EXPENSE" THEN Dec(tx.amount) ELSE JsNegate(Dec(tx.amount))

\* transactions.reduce(..., {}) grouping the change per accountId
RECURSIVE AccountBalanceChanges(_)
AccountBalanceChanges(found) ==
    IF found = <<>> THEN [a \in {} |-> Undefined]
    ELSE LET acc  == AccountBalanceChanges(SubSeq(found, 1, Len(found) - 1))
             tx   == found[Len(found)]
             prev == IF tx.accountId \in DOMAIN acc THEN acc[tx.accountId] ELSE Undefined
             new  == JsAdd(JsOr(prev, Num(0)), ChangeOf(tx))
         IN  [a \in DOMAIN acc \cup {tx.accountId} |->
                 IF a = tx.accountId THEN new ELSE acc[a]]

\* Whether the store accepts an increment value, and the amount it adds.
IncrementOk(v) == v.t = "num" \/ (v.t = "str" /\ ParseDecimal(v.s).ok)
IncrementBy(v) == IF v.t = "num" THEN v.n ELSE ParseDecimal(v.s).n

\* Object.entries(accountBalanceChanges): the keys in insertion order.
RECURSIVE ChangeKeys(_)
ChangeKeys(found) ==
    IF found = <<>> THEN <<>>
    ELSE LET keys == ChangeKeys(SubSeq(found, 1, Len(found) - 1))
             a    == found[Len(found)].accountId
         IN  IF \E i \in 1..Len(keys) : keys[i] = a THEN keys ELSE Append(keys, a)

\* tx.account.update({ where: { id }, data: { balance: { increment } } })
IncrementBalance(accs, id, v) ==
    [accs EXCEPT ![id].balance = @ + IncrementBy(v)]

RECURSIVE ApplyUpdates(_, _, _, _)
ApplyUpdates(accs, keys, changes, k) ==
    IF k = 0 THEN accs
    ELSE IncrementBalance(ApplyUpdates(accs, keys, changes, k - 1),
                          keys[k], changes[keys[k]])

\* An update throws when the store fails there, when the account row is
\* missing or when the increment value is not a decimal.
UpdateThrows(accs, keys, changes, i, failAt) ==
    \/ failAt = i
    \/ keys[i] \notin DOMAIN accs
    \/ ~IncrementOk(changes[keys[i]])

\* Statements run outside a transaction: what ran before the throw stays.
KeepPartial(ran, accs, txs) == ran

\* db.$transaction: what is kept of the statements run so far.  A callback
\* that throws rolls every statement back.
Rollback(ran, accs, txs) ==
    IF ran.ok THEN ran
    ELSE [ok |-> FALSE, rejected |-> ran.rejected, accounts |-> accs, transactions |-> txs]

\* The callback of db.$transaction (lines 97-119): deleteMany, then one
\* update per entry.  failAt = 0: deleteMany throws; failAt = i: update i
\* throws; failAt > number of entries: the store does not fail.  rejected:
\* the callback threw because an update refused its increment value.
RunTransaction(accs, txs, ids, userId, found, failAt) ==
    LET keys    == ChangeKeys(found)
        changes == AccountBalanceChanges(found)
        n       == Len(keys)
        bad     == {i \in 1..n : UpdateThrows(accs, keys, changes, i, failAt)}
        stop    == IF failAt = 0 THEN 0
                   ELSE IF bad = {} THEN n + 1
                   ELSE CHOOSE i \in bad : \A j \in bad : i <= j
        txsRan  == IF stop = 0 THEN txs ELSE DeleteMany(txs, ids, userId)
        accsRan == IF stop = 0 THEN accs
                   ELSE ApplyUpdates(accs, keys, changes, IF stop > n THEN n ELSE stop - 1)
    IN  Rollback([ok |-> stop = n + 1, rejected |-> stop \in 1..n /\ stop # failAt,
                  accounts |-> accsRan, transactions |-> txsRan],
                 accs, txs)

\* ------------------------------------------------------------- accounts
AccountsOf(accs, userId) == {a \in DOMAIN accs : accs[a].userId = userId}

\* db.account.updateMany({ where: { userId, isDefault: true },
\*                         data: { isDefault: false } })
ClearDefaults(accs, userId) ==
    [a \in DOMAIN accs |->
        IF accs[a].userId = userId /\ accs[a].isDefault
        THEN [accs[a] EXCEPT !.isDefault = FALSE] ELSE accs[a]]

\* db.account.update({ where: { id, userId }, data: { isDefault: true } }):
\* the row it matches, if any.
OwnsAccount(accs, id, userId) == id \in DOMAIN accs /\ accs[id].userId = userId

SetDefault(accs, id) == [accs EXCEPT ![id].isDefault = TRUE]

\* The requested flag taken as is, without the first-account rule.
RequestedOnly(existing, requested) == requested

\* const shouldBeDefault = existingAccounts.length === 0 ? true : data.isDefault
ShouldBeDefault(existing, requested) == IF existing = 0 THEN TRUE ELSE requested

\* The balance check of createAccount: the first copy of the action rejects
\* NaN only (line 69), the second also rejects negatives (line 205).
BalanceRejected(variant, balanceFloat) ==
    IF variant = 1 THEN isNaN(balanceFloat)
    ELSE isNaN(balanceFloat) \/ balanceFloat.n < 0

\* ------------------------------------------------------------- state
VARIABLES
    accounts,       \* Account rows: id -> [userId, balance, isDefault]
    transactions,   \* Transaction rows: set of [id, accountId, userId, type, amount]
    nextTxId,       \* the next transaction id to hand out
    proc,           \* per request: the action it runs, its locals and its result
    deleted,        \* history: <<userId, ids>> of the latest bulk delete that
                    \* returned success
    connected       \* the process-wide client db: TRUE from a $connect() to the
                    \* next $disconnect()

vars == <<accounts, transactions, nextTxId, proc, deleted, connected>>

\* data.balance as submitted by the form
BalanceInputs == {<<"1">>, <<"-", "1">>, <<"x">>}

\* An id that names no row, now or later.
NoId == 0

Pending == [success |-> FALSE, error |-> "pending"]
Ok == [success |-> TRUE, error |-> ""]
Failure(msg) == [success |-> FALSE, error |-> msg]

\* What a read returns: [] (an empty accounts or transactions list), null, or
\* the rows; error is the message of an exception that leaves the action.
EmptyList == [null |-> FALSE, error |-> "", accounts |-> <<>>, transactions |-> {}]
Null == [EmptyList EXCEPT !.null = TRUE]

IdleProc ==
    [pc |-> "idle", op |-> "none", variant |-> 0, cred |-> "none",
     accountId |-> NoId, ids |-> {}, balance |-> <<>>, isDefault |-> FALSE,
     decision |-> "allow", found |-> <<>>, shouldBeDefault |-> FALSE,
     created |-> NoId, mutated |-> FALSE, repeat |-> FALSE, fault |-> "none",
     result |-> Pending, data |-> EmptyList,
     pre |-> [accounts |-> <<>>, transactions |-> {}]]

Snapshot == [accounts |-> accounts, transactions |-> transactions]

Active(p) == proc[p].pc \notin {"idle", "done"}

\* const { userId } = await auth(); db.user.findUnique({ where: { clerkUserId } })
IdentityError(cred) ==
    IF cred = "none" THEN "Unauthorized"
    ELSE IF cred \notin Users THEN "User not found"
    ELSE ""

\* The call ends with res; fault names what threw, if anything did.
Finish(p, res, fault) ==
    [proc EXCEPT ![p].pc = "done", ![p].result = res, ![p].fault = fault]

\* The handle is let go only when the body returned, not when it threw.
ReleasedUnlessThrown(variant, held, threw) ==
    IF variant = 2 /\ ~threw THEN FALSE ELSE held

\* await db.$connect() (part_001 lines 155, 184, 250)
Connect(held) == TRUE

\* finally { await db.$disconnect() } (part_001 lines 173-175, 239-241,
\* 270-272): the second copy of the dashboard actions closes the shared client
\* however the body ended; the other actions have no finally.
Finally(variant, held, threw) ==
    IF variant = 2 THEN FALSE ELSE held

\* The client after a step of request p: connects tells whether the step ran
\* $connect(); a step that ends the call runs the finally block.
Handle(p, connects) ==
    LET held == IF connects THEN Connect(connected) ELSE connected
    IN  connected' = IF proc'[p].pc = "done"
                     THEN Finally(proc'[p].variant, held, proc'[p].fault # "none")
                     ELSE held

\* A revalidatePath that throws undoes the statement before it.
UndoneOnRevalidateFailure(after, before, revalidateFails) ==
    IF revalidateFails THEN before ELSE after

\* revalidatePath runs after the awaited store statement (or $transaction)
\* has committed: whether or not it throws, the store keeps what was written.
Committed(after, before, revalidateFails) == after

Init ==
    /\ accounts = <<>>
    /\ transactions = {}
    /\ nextTxId = 1
    /\ proc = [p \in Procs |-> IdleProc]
    /\ deleted = <<>>
    /\ connected = FALSE

\* ------------------------------------------------------------- updateDefaultAccount
\* lines 136-147: the call starts and resolves the caller.  With reach, only
\* the calls that get to the first statement on accounts are taken.
BeginUpdateDefaultAccount(p, reach) ==
    /\ proc[p].pc = "idle"
    /\ \E cred \in Creds, accountId \in AccountIds \cup {NoId} :
        /\ reach => IdentityError(cred) = ""
        /\ LET call == [IdleProc EXCEPT !.op = "updateDefaultAccount", !.cred = cred,
                                     !.accountId = accountId, !.pre = Snapshot]
           IN  proc' = [proc EXCEPT ![p] =
                IF IdentityError(cred) # ""
                THEN [call EXCEPT !.pc = "done", !.result = Failure(IdentityError(cred))]
                ELSE [call EXCEPT !.pc = "unset"]]
    /\ UNCHANGED <<accounts, transactions, nextTxId, deleted, connected>>

\* lines 149-156: db.account.updateMany clears the caller's default flags
UnsetDefaults(p) ==
    /\ proc[p].pc = "unset"
    /\ \E storeFails \in BOOLEAN :
        IF storeFails
        THEN /\ proc' = Finish(p, Failure("store"), "store")
             /\ UNCHANGED accounts
        ELSE /\ accounts' = ClearDefaults(accounts, proc[p].cred)
             /\ proc' = [proc EXCEPT ![p].pc = "set"]
    /\ UNCHANGED <<transactions, nextTxId, deleted, connected>>

\* lines 158-174: db.account.update sets the flag on the named row, or throws
\* when no row of the caller has that id; then revalidatePath
SetNewDefault(p) ==
    /\ proc[p].pc = "set"
    /\ \E storeFails \in BOOLEAN, revalidateFails \in BOOLEAN :
        IF storeFails
        THEN /\ proc' = Finish(p, Failure("store"), "store")
             /\ UNCHANGED accounts
        ELSE IF ~OwnsAccount(accounts, proc[p].accountId, proc[p].cred)
        THEN /\ proc' = Finish(p, Failure("Record to update not found"), "notfound")
             /\ UNCHANGED accounts
        ELSE /\ accounts' = Committed(SetDefault(accounts, proc[p].accountId),
                                      accounts, revalidateFails)
             /\ proc' = [proc EXCEPT ![p].pc = "done", ![p].mutated = TRUE,
                            ![p].fault = IF revalidateFails THEN "revalidate" ELSE "none",
                            ![p].result = IF revalidateFails
                                          THEN Failure("revalidate") ELSE Ok]
    /\ UNCHANGED <<transactions, nextTxId, deleted, connected>>

\* ------------------------------------------------------------- createAccount
CreatesInFlight == Cardinality({q \in Procs : Active(q) /\ proc[q].op = "createAccount"})

\* The early exits without the check of the abuse guard's decision.
GuardIgnored(variant, cred, decision, balance) ==
    IF cred = "none" THEN "Unauthorized"
    ELSE IF cred \notin Users THEN "User not found"
    ELSE IF BalanceRejected(variant, parseFloat(balance)) THEN "Invalid balance amount"
    ELSE ""

\* The exits before the first query on accounts (lines 48-71 and 181-207):
\* auth, the abuse guard's decision, the user row, the balance check.
CreateAccountEarlyError(variant, cred, decision, balance) ==
    IF cred = "none" THEN "Unauthorized"
    ELSE IF decision = "rateLimit" THEN "Too many requests. Try again later."
    ELSE IF decision = "blocked" THEN "Request blocked"
    ELSE IF cred \notin Users THEN "User not found"
    ELSE IF BalanceRejected(variant, parseFloat(balance)) THEN "Invalid balance amount"
    ELSE ""

BeginCreateAccount(p, reach) ==
    /\ proc[p].pc = "idle"
    /\ Len(accounts) + CreatesInFlight < MaxAccounts
    /\ \E variant \in {1, 2}, cred \in Creds, balance \in BalanceInputs,
          isDefault \in BOOLEAN, decision \in {"allow", "rateLimit", "blocked"} :
        LET call == [IdleProc EXCEPT !.op = "createAccount", !.variant = variant,
                                     !.cred = cred, !.balance = balance,
                                     !.isDefault = isDefault, !.decision = decision,
                                     !.pre = Snapshot]
            err  == CreateAccountEarlyError(variant, cred, decision, balance)
        IN  /\ reach => err = ""
            /\ proc' = [proc EXCEPT ![p] =
                    IF err # ""
                    THEN [call EXCEPT !.pc = "done", !.result = Failure(err)]
                    ELSE [call EXCEPT !.pc = "existing"]]
    /\ UNCHANGED <<accounts, transactions, nextTxId, deleted>>
    /\ Handle(p, proc'[p].variant = 2 /\ proc'[p].cred # "none")

\* lines 73-77 / 209-214: existingAccounts and shouldBeDefault
FindExistingAccounts(p) ==
    /\ proc[p].pc = "existing"
    /\ \E storeFails \in BOOLEAN :
        IF storeFails
        THEN proc' = Finish(p, Failure("Failed to create account"), "store")
        ELSE LET sbd == ShouldBeDefault(Cardinality(AccountsOf(accounts, proc[p].cred)),
                                        proc[p].isDefault)
             IN  proc' = [proc EXCEPT ![p].shouldBeDefault = sbd,
                                      ![p].pc = IF sbd THEN "clear" ELSE "create"]
    /\ UNCHANGED <<accounts, transactions, nextTxId, deleted>>
    /\ Handle(p, FALSE)

\* lines 79-84 / 216-222: clear the caller's default flags
ClearOldDefault(p) ==
    /\ proc[p].pc = "clear"
    /\ \E storeFails \in BOOLEAN :
        IF storeFails
        THEN /\ proc' = Finish(p, Failure("Failed to create account"), "store")
             /\ UNCHANGED accounts
        ELSE /\ accounts' = ClearDefaults(accounts, proc[p].cred)
             /\ proc' = [proc EXCEPT ![p].pc = "create"]
    /\ UNCHANGED <<transactions, nextTxId, deleted>>
    /\ Handle(p, FALSE)

\* lines 86-96 / 224-235: db.account.create, then revalidatePath
NewAccount(p) ==
    [userId |-> proc[p].cred, balance |-> parseFloat(proc[p].balance).n,
     isDefault |-> proc[p].shouldBeDefault]

InsertAccount(p) ==
    /\ proc[p].pc = "create"
    /\ \E storeFails \in BOOLEAN, revalidateFails \in BOOLEAN :
        IF storeFails
        THEN /\ proc' = Finish(p, Failure("Failed to create account"), "store")
             /\ UNCHANGED accounts
        ELSE /\ accounts' = Committed(Append(accounts, NewAccount(p)),
                                      accounts, revalidateFails)
             /\ proc' = [proc EXCEPT ![p].pc = "done", ![p].mutated = TRUE,
                            ![p].created = Len(accounts) + 1,
                            ![p].fault = IF revalidateFails THEN "revalidate" ELSE "none",
                            ![p].result = IF revalidateFails
                                          THEN Failure("Failed to create account")
                                          ELSE Ok]
    /\ UNCHANGED <<transactions, nextTxId, deleted>>
    /\ Handle(p, FALSE)

\* ------------------------------------------------------------- bulkDeleteTransactions
\* Ids a caller can name: those handed out so far (an id is never reused, so
\* an id of no row is the id of a deleted row).
NameableTxIds == 1..(nextTxId - 1)

BeginBulkDelete(p) ==
    /\ proc[p].pc = "idle"
    /\ \E cred \in Creds, ids \in SUBSET NameableTxIds :
        LET call == [IdleProc EXCEPT !.op = "bulkDeleteTransactions", !.cred = cred,
                                     !.ids = ids, !.pre = Snapshot,
                                     !.repeat = (deleted = <<cred, ids>>)]
        IN  proc' = [proc EXCEPT ![p] =
                IF IdentityError(cred) # ""
                THEN [call EXCEPT !.pc = "done", !.result = Failure(IdentityError(cred))]
                ELSE [call EXCEPT !.pc = "find"]]
    /\ UNCHANGED <<accounts, transactions, nextTxId, deleted, connected>>

\* lines 74-84: the caller's rows among the ids; none is a failure result
FindToDelete(p) ==
    /\ proc[p].pc = "find"
    /\ \E storeFails \in BOOLEAN :
        LET rows == FindTransactions(transactions, proc[p].ids, proc[p].cred)
        IN  IF storeFails
            THEN proc' = Finish(p, Failure("store"), "find")
            ELSE IF rows = {}
            THEN proc' = Finish(p, Failure("No transactions found to delete"), "none")
            ELSE \E found \in Orderings(rows) :
                    proc' = [proc EXCEPT ![p].found = found, ![p].pc = "transaction"]
    /\ UNCHANGED <<accounts, transactions, nextTxId, deleted, connected>>

\* lines 86-132: the changes per account, the $transaction, revalidatePath
DeleteAndUpdate(p) ==
    /\ proc[p].pc = "transaction"
    /\ \E failAt \in 0..(Len(ChangeKeys(proc[p].found)) + 1), revalidateFails \in BOOLEAN :
        LET out == RunTransaction(accounts, transactions, proc[p].ids, proc[p].cred,
                                  proc[p].found, failAt)
            res == IF ~out.ok THEN Failure("store")
                   ELSE IF revalidateFails THEN Failure("revalidate") ELSE Ok
        IN  /\ accounts' = Committed(out.accounts, accounts, revalidateFails)
            /\ transactions' = Committed(out.transactions, transactions, revalidateFails)
            /\ proc' = [proc EXCEPT ![p].pc = "done", ![p].mutated = out.ok,
                                    ![p].found = <<>>, ![p].result = res,
                                    ![p].fault = IF out.rejected THEN "increment"
                                                 ELSE IF ~out.ok THEN "transaction"
                                                 ELSE IF revalidateFails THEN "revalidate"
                                                 ELSE "none"]
            /\ deleted' = IF res.success THEN <<proc[p].cred, proc[p].ids>> ELSE deleted
    /\ UNCHANGED <<nextTxId, connected>>

\* ------------------------------------------------------------- the reads
ReadOps == {"getUserAccounts", "getDashboardData", "getAccountWithTransactions"}

\* serializeTransaction / serializeDecimal on an account row fetched with
\* include { _count: { select: { transactions } } }: the Decimal balance
\* becomes the number of the same value.
AccountView(accs, txs, a) ==
    [id |-> a, userId |-> accs[a].userId, balance |-> accs[a].balance,
     isDefault |-> accs[a].isDefault,
     count |-> Cardinality({tx \in txs : tx.accountId = a})]

\* db.account.findMany({ where: { userId }, orderBy: { createdAt: "desc" } }):
\* ids are handed out in creation order, so the latest comes first.
AccountList(accs, txs, u) ==
    LET own == SelectSeq([a \in 1..Len(accs) |-> a], LAMBDA a : accs[a].userId = u)
    IN  [i \in 1..Len(own) |-> AccountView(accs, txs, own[Len(own) + 1 - i])]

\* db.transaction.findMany({ where: { userId } })
TransactionList(txs, u) == {tx \in txs : tx.userId = u}

\* The account row with that id, whoever owns it.
AccountById(accs, id, u) == id \in DOMAIN accs

\* db.account.findUnique({ where: { id: accountId, userId: user.id } })
AccountOfUser(accs, id, u) == id \in DOMAIN accs /\ accs[id].userId = u

\* part_000 lines 34-55: the account with its transactions, or null
AccountWithTransactions(accs, txs, id, u) ==
    IF AccountOfUser(accs, id, u)
    THEN [null |-> FALSE, error |-> "", accounts |-> <<AccountView(accs, txs, id)>>,
          transactions |-> {tx \in txs : tx.accountId = id}]
    ELSE Null

ReadResult(op, accs, txs, id, u) ==
    CASE op = "getUserAccounts" ->
            [EmptyList EXCEPT !.accounts = AccountList(accs, txs, u)]
      [] op = "getDashboardData" ->
            [EmptyList EXCEPT !.transactions = TransactionList(txs, u)]
      [] op = "getAccountWithTransactions" ->
            AccountWithTransactions(accs, txs, id, u)

\* The exception leaves the action.
Rethrown(op) == [EmptyList EXCEPT !.error = "thrown"]

\* The catch blocks of the reads: return [] (part_001 lines 39-42, 124-127,
\* 170-172, 267-269) and return null (part_000 lines 56-59).
ReadFallback(op) ==
    IF op = "getAccountWithTransactions" THEN Null ELSE EmptyList

\* No session, or no user row: the lists return [] (part_001 lines 24, 30),
\* getAccountWithTransactions throws into its catch (part_000 lines 27, 33).
NoIdentity(op) ==
    IF op = "getAccountWithTransactions" THEN ReadFallback(op) ELSE EmptyList

ReadDone(p, data, fault) ==
    [proc EXCEPT ![p].pc = "done", ![p].data = data, ![p].fault = fault]

\* A read is called: it runs up to its await auth().  The reads of part_001
\* come in the two copies; getAccountWithTransactions has no $connect.
BeginRead(p) ==
    /\ proc[p].pc = "idle"
    /\ \E op \in ReadOps, cred \in Creds :
       \E variant \in (IF op = "getAccountWithTransactions" THEN {1} ELSE {1, 2}),
          accountId \in (IF op = "getAccountWithTransactions"
                         THEN AccountIds \cup {NoId} ELSE {NoId}) :
            proc' = [proc EXCEPT ![p] =
                        [IdleProc EXCEPT !.pc = "auth", !.op = op, !.variant = variant,
                                         !.cred = cred, !.accountId = accountId,
                                         !.pre = Snapshot]]
    /\ UNCHANGED <<accounts, transactions, nextTxId, deleted, connected>>

\* const { userId } = await auth(); if (!userId) ...; await db.$connect()
Authenticate(p) ==
    /\ proc[p].pc = "auth"
    /\ \E connectFails \in BOOLEAN :
        IF proc[p].cred = "none"
        THEN /\ proc' = ReadDone(p, NoIdentity(proc[p].op), "none")
             /\ Handle(p, FALSE)
        ELSE IF proc[p].variant = 2 /\ connectFails
        THEN /\ proc' = ReadDone(p, ReadFallback(proc[p].op), "store")
             /\ Handle(p, FALSE)
        ELSE /\ proc' = [proc EXCEPT ![p].pc = "user"]
             /\ Handle(p, proc[p].variant = 2)
    /\ UNCHANGED <<accounts, transactions, nextTxId, deleted>>

\* db.user.findUnique({ where: { clerkUserId: userId } })
FindUser(p) ==
    /\ proc[p].pc = "user"
    /\ \E storeFails \in BOOLEAN :
        proc' = IF storeFails THEN ReadDone(p, ReadFallback(proc[p].op), "store")
                ELSE IF proc[p].cred \notin Users
                THEN ReadDone(p, NoIdentity(proc[p].op), "none")
                ELSE [proc EXCEPT ![p].pc = "rows"]
    /\ Handle(p, FALSE)
    /\ UNCHANGED <<accounts, transactions, nextTxId, deleted>>

\* The query on accounts or transactions, and the serialized return value.
FindRows(p) ==
    /\ proc[p].pc = "rows"
    /\ \E storeFails \in BOOLEAN :
        proc' = IF storeFails THEN ReadDone(p, ReadFallback(proc[p].op), "store")
                ELSE ReadDone(p, ReadResult(proc[p].op, accounts, transactions,
                                            proc[p].accountId, proc[p].cred), "none")
    /\ Handle(p, FALSE)
    /\ UNCHANGED <<accounts, transactions, nextTxId, deleted>>

\* DashboardPage: Promise.all([getUserAccounts(), getDashboardData()]), both
\* of the same copy of the actions and under the same session.
DashboardPage ==
    /\ \A q \in Procs : proc[q].pc = "idle"
    /\ \E variant \in {1, 2}, cred \in Creds :
        proc' = [q \in Procs |->
                    [IdleProc EXCEPT !.pc = "auth",
                                     !.op = IF q = 1 THEN "getUserAccounts"
                                                     ELSE "getDashboardData",
                                     !.variant = variant, !.cred = cred,
                                     !.pre = Snapshot]]
    /\ UNCHANGED <<accounts, transactions, nextTxId, deleted, connected>>

\* ------------------------------------------------------------- the rest
\* The caller receives the result.
Return(p) ==
    /\ proc[p].pc = "done"
    /\ proc' = [proc EXCEPT ![p] = IdleProc]
    /\ UNCHANGED <<accounts, transactions, nextTxId, deleted, connected>>

\* Live creation of a transaction: the row is inserted and the account's
\* balance moves by its signed amount, in one atomic unit.
CreateTransaction ==
    /\ nextTxId <= MaxTransactions
    /\ \E a \in DOMAIN accounts, type \in TxTypes, amount \in Amounts :
        LET tx == [id |-> nextTxId, accountId |-> a, userId |-> accounts[a].userId,
                   type |-> type, amount |-> amount]
        IN  /\ transactions' = transactions \cup {tx}
            /\ accounts' = [accounts EXCEPT ![a].balance = @ + Signed(tx)]
    /\ nextTxId' = nextTxId + 1
    /\ UNCHANGED <<proc, deleted, connected>>

\* The steps of the account actions and of the bulk delete.
AccountStep(p, reach) ==
    \/ BeginUpdateDefaultAccount(p, reach)
    \/ UnsetDefaults(p)
    \/ SetNewDefault(p)
    \/ BeginCreateAccount(p, reach)
    \/ FindExistingAccounts(p)
    \/ ClearOldDefault(p)
    \/ InsertAccount(p)
    \/ Return(p)

DeleteStep(p) ==
    \/ BeginBulkDelete(p)
    \/ FindToDelete(p)
    \/ DeleteAndUpdate(p)

ReadStep(p) ==
    \/ Authenticate(p)
    \/ FindUser(p)
    \/ FindRows(p)

\* One request at a time: a call runs to its result, and the caller takes
\* it, before the next call starts.
AllIdle == \A q \in Procs : proc[q].pc = "idle"

Next ==
    \/ AccountStep(1, FALSE)
    \/ DeleteStep(1)
    \/ BeginRead(1)
    \/ ReadStep(1)
    \/ AllIdle /\ CreateTransaction

Spec == Init /\ [][Next]_vars

\* Requests of the account actions in flight together, each past its early
\* exits: their store statements interleave, each statement being atomic in
\* the store.
RaceNext == \E p \in Procs : AccountStep(p, TRUE)

RaceSpec == Init /\ [][RaceNext]_vars

\* The dashboard page's two reads in flight together on the one client.
DashboardNext ==
    \/ DashboardPage
    \/ \E p \in Procs : ReadStep(p) \/ Return(p)

DashboardSpec == Init /\ [][DashboardNext]_vars

\* Two bulk deletes by one user in flight together.  The store they start
\* from is one a createAccount with balance "1" and RaceTransactions live
\* creations (amount 1, either type) leave behind.
DeleteRaceInit ==
    /\ \E types \in [1..RaceTransactions -> TxTypes] :
        LET txs == {[id |-> i, accountId |-> 1, userId |-> "u1", type |-> types[i],
                     amount |-> 1] : i \in 1..RaceTransactions}
        IN  /\ transactions = txs
            /\ accounts = <<[userId |-> "u1", balance |-> 1 + SumSigned(txs),
                             isDefault |-> TRUE]>>
    /\ nextTxId = RaceTransactions + 1
    /\ proc = [p \in Procs |-> IdleProc]
    /\ deleted = <<>>
    /\ connected = FALSE

\* findMany, the $transaction and the return of each call are steps of their
\* own: findMany runs before, and outside, the $transaction (lines 74-119).
DeleteRaceNext == \E p \in Procs : DeleteStep(p) /\ proc'[p].cred = "u1"

DeleteRaceSpec == DeleteRaceInit /\ [][DeleteRaceNext]_vars

\* ------------------------------------------------------------- properties
\* The call whose result the caller is about to take (one request at a time).
call == proc[1]

Completed(op) == call.pc = "done" /\ call.op = op

NoCallRunning == \A p \in Procs : ~Active(p)

\* The caller's rows among ids, in the store as the call found it.
ResolvedBefore ==
    {tx \in call.pre.transactions : tx.id \in call.ids /\ tx.userId = call.cred}

NumDefaults(u) == Cardinality({a \in DOMAIN accounts :
                                 accounts[a].userId = u /\ accounts[a].isDefault})

NumAccounts(u) == Cardinality({a \in DOMAIN accounts : accounts[a].userId = u})

\* C1: whenever no call is running, a user with at least one account has
\* exactly one default account and a user with no account has none.
DefaultSingleton ==
    NoCallRunning =>
        \A u \in Users : NumDefaults(u) = (IF NumAccounts(u) = 0 THEN 0 ELSE 1)

\* C2: whenever no call is running, every account's balance is the signed sum
\* (INCOME positive, EXPENSE negative) of the transactions that reference it.
BalanceIsSignedSum ==
    NoCallRunning =>
        \A a \in DOMAIN accounts :
            accounts[a].balance = SumSigned({tx \in transactions : tx.accountId = a})

\* C3: an updateDefaultAccount whose accountId names no account of the caller
\* returns a failure and leaves every isDefault flag as it was.
SetDefaultNotFoundChangesNothing ==
    (/\ Completed("updateDefaultAccount")
     /\ call.cred \in Users
     /\ ~(/\ call.accountId \in DOMAIN call.pre.accounts
          /\ call.pre.accounts[call.accountId].userId = call.cred))
    => /\ ~call.result.success
       /\ \A a \in DOMAIN accounts : accounts[a].isDefault = call.pre.accounts[a].isDefault

\* C4: with createAccount and updateDefaultAccount calls in flight together,
\* no state between store statements shows a user two default accounts, or
\* none while the user has an account.
NoDefaultWindow ==
    \A u \in Users : NumDefaults(u) = (IF NumAccounts(u) = 0 THEN 0 ELSE 1)

\* C5: a bulk delete of ids by the caller whose latest successful bulk delete
\* was of the same ids changes no row and no balance, and, the store
\* answering its query, returns "No transactions found to delete".
IdempotentDeletion ==
    (Completed("bulkDeleteTransactions") /\ call.repeat)
    => /\ Snapshot = call.pre
       /\ ~call.result.success
       /\ call.fault = "none" => call.result.error = "No transactions found to delete"

RepeatedDeletionDone ==
    /\ Completed("bulkDeleteTransactions")
    /\ call.repeat
    /\ call.ids # {}
    /\ call.fault = "none"
    /\ call.result.error = "No transactions found to delete"
    /\ transactions # {}

\* C6: a bulk delete whose ids are empty or resolve to no transaction of the
\* caller changes no row and no balance, and, the store answering its query,
\* returns {success: false, error: "No transactions found to delete"}.
EmptySelection ==
    (Completed("bulkDeleteTransactions") /\ call.cred \in Users /\ ResolvedBefore = {})
    => /\ Snapshot = call.pre
       /\ call.fault = "none"
            => call.result = [success |-> FALSE, error |-> "No transactions found to delete"]

ForeignSelectionRefused ==
    /\ Completed("bulkDeleteTransactions")
    /\ call.cred \in Users
    /\ ResolvedBefore = {}
    /\ \E tx \in transactions : tx.id \in call.ids /\ tx.userId # call.cred
    /\ call.result.error = "No transactions found to delete"

\* The change that undoes a set of transactions: +amount for an EXPENSE,
\* -amount for an INCOME.
RECURSIVE Reversal(_)
Reversal(S) ==
    IF S = {} THEN 0
    ELSE LET x == CHOOSE y \in S : TRUE
         IN  (IF x.type = "EXPENSE" THEN x.amount ELSE -x.amount) + Reversal(S \ {x})

\* C7: after a bulk delete that succeeds, every account's balance is its
\* balance before the call plus the reversal of the deleted transactions
\* that referenced it.
CrossAccountBulkDelete ==
    (Completed("bulkDeleteTransactions") /\ call.result.success)
    => \A a \in DOMAIN accounts :
          accounts[a].balance =
              call.pre.accounts[a].balance
              + Reversal({tx \in ResolvedBefore : tx.accountId = a})

\* C8: a bulk delete whose deleteMany or whose balance update throws returns
\* a failure, and no row is deleted and no balance changed.
AllOrNothing ==
    (Completed("bulkDeleteTransactions") /\ call.fault \in {"transaction", "increment"})
    => /\ ~call.result.success
       /\ Snapshot = call.pre

FailedAcrossTwoAccounts ==
    /\ Completed("bulkDeleteTransactions")
    /\ call.fault \in {"transaction", "increment"}
    /\ \E x, y \in ResolvedBefore : x.accountId # y.accountId

\* C9: the account createAccount inserts is default when the caller had no
\* account before the call, and otherwise has the requested flag.
DefaultFlagRule ==
    (Completed("createAccount") /\ call.created # NoId)
    => accounts[call.created].isDefault =
          (IF \A a \in DOMAIN call.pre.accounts : call.pre.accounts[a].userId # call.cred
           THEN TRUE ELSE call.isDefault)

BootstrapDefault ==
    /\ Completed("createAccount")
    /\ call.created # NoId
    /\ ~call.isDefault
    /\ accounts[call.created].isDefault
    /\ \E a \in DOMAIN accounts : accounts[a].userId # call.cred

\* C10: a createAccount whose balance input is not a number or is negative
\* returns a failure, inserts no account and clears no default flag.
BalanceValidation ==
    (/\ Completed("createAccount")
     /\ call.cred \in Users
     /\ call.decision = "allow"
     /\ (parseFloat(call.balance).nan \/ parseFloat(call.balance).n < 0))
    => /\ ~call.result.success
       /\ accounts = call.pre.accounts

Offset(accs, txs, a) == accs[a].balance - SumSigned({tx \in txs : tx.accountId = a})

\* C19: a completed bulk delete, successful or failed, leaves the difference
\* between every account's balance and the signed sum of its transactions
\* as it was before the call.
OffsetPreserved ==
    Completed("bulkDeleteTransactions")
    => \A a \in DOMAIN accounts :
          Offset(accounts, transactions, a)
              = Offset(call.pre.accounts, call.pre.transactions, a)

\* C13: a createAccount that the abuse guard denies (rate limit or block)
\* returns a failure and changes nothing in the store: no account is
\* inserted and no default flag changed.
AbuseGuardDenial ==
    (/\ Completed("createAccount")
     /\ call.cred # "none"
     /\ call.decision \in {"rateLimit", "blocked"})
    => /\ call.result = [success |-> FALSE,
                         error |-> IF call.decision = "rateLimit"
                                   THEN "Too many requests. Try again later."
                                   ELSE "Request blocked"]
       /\ Snapshot = call.pre

DeniedWithDefaultAtStake ==
    /\ Completed("createAccount")
    /\ call.decision = "rateLimit"
    /\ call.isDefault
    /\ call.cred \in Users
    /\ parseFloat(call.balance).n = 1
    /\ \E a \in DOMAIN accounts : accounts[a].userId = call.cred /\ accounts[a].isDefault
    /\ Len(accounts) < MaxAccounts

\* C14: when revalidatePath throws after the store mutation of a bulk delete,
\* an updateDefaultAccount or a createAccount, the mutation stays: the rows
\* are deleted, the flag is set, the account is inserted.
InvalidationOutsideAtomicUnit ==
    (call.pc = "done" /\ call.fault = "revalidate")
    => /\ call.op = "bulkDeleteTransactions"
            => /\ ResolvedBefore # {}
               /\ transactions = call.pre.transactions \ ResolvedBefore
               /\ accounts # call.pre.accounts
       /\ call.op = "updateDefaultAccount"
            => accounts[call.accountId].isDefault
       /\ call.op = "createAccount"
            => /\ Len(accounts) = Len(call.pre.accounts) + 1
               /\ accounts[call.created].userId = call.cred

InvalidationFailedAfterDelete ==
    /\ Completed("bulkDeleteTransactions")
    /\ call.fault = "revalidate"
    /\ ~call.result.success
    /\ transactions # call.pre.transactions

\* C11: getAccountWithTransactions with the id of another user's account
\* returns null, as for an id that names no account; what it returns is
\* determined by the caller's own rows alone.
OwnershipIsolation ==
    Completed("getAccountWithTransactions")
    => LET own == {a \in DOMAIN accounts : accounts[a].userId = call.cred}
           mine == {tx \in transactions :
                        tx.userId = call.cred /\ tx.accountId = call.accountId}
       IN  /\ call.accountId \notin own => call.data = Null
           /\ (call.accountId \in own /\ call.fault = "none")
                => call.data =
                     [null |-> FALSE, error |-> "",
                      accounts |-> <<[id |-> call.accountId, userId |-> call.cred,
                                      balance |-> accounts[call.accountId].balance,
                                      isDefault |-> accounts[call.accountId].isDefault,
                                      count |-> Cardinality(mine)]>>,
                      transactions |-> mine]

ForeignAccountNotFound ==
    /\ Completed("getAccountWithTransactions")
    /\ call.cred \in Users
    /\ call.fault = "none"
    /\ call.accountId \in DOMAIN accounts
    /\ accounts[call.accountId].userId # call.cred
    /\ \E tx \in transactions : tx.accountId = call.accountId
    /\ call.data = Null

\* C16: a completed getUserAccounts, createAccount or getDashboardData of the
\* copy that calls $connect() leaves the shared client released, whichever
\* way it ended: early return, validation failure or thrown store error.
HandleReleased ==
    (/\ call.pc = "done"
     /\ call.op \in {"getUserAccounts", "createAccount", "getDashboardData"}
     /\ call.variant = 2)
    => ~connected

ReleasedAfterStoreError ==
    /\ Completed("createAccount")
    /\ call.variant = 2
    /\ call.fault = "store"
    /\ call.shouldBeDefault
    /\ ~connected

\* C17: getUserAccounts and getDashboardData return [] and
\* getAccountWithTransactions returns null, and no exception leaves them,
\* when the identity cannot be resolved, when a store statement fails, or when
\* the caller has no such rows.
ReadsNeverFail ==
    (call.pc = "done" /\ call.op \in ReadOps)
    => LET none == IF call.op = "getAccountWithTransactions"
                   THEN [null |-> TRUE, error |-> "", accounts |-> <<>>,
                         transactions |-> {}]
                   ELSE [null |-> FALSE, error |-> "", accounts |-> <<>>,
                         transactions |-> {}]
           noRows == CASE call.op = "getUserAccounts" -> NumAccounts(call.cred) = 0
                       [] call.op = "getDashboardData" ->
                            \A tx \in transactions : tx.userId # call.cred
                       [] call.op = "getAccountWithTransactions" ->
                            ~(/\ call.accountId \in DOMAIN accounts
                              /\ accounts[call.accountId].userId = call.cred)
       IN  /\ call.data.error = ""
           /\ (call.cred \notin Users \/ call.fault # "none" \/ noRows)
                => call.data = none

FailedReadOfExistingRows ==
    /\ Completed("getDashboardData")
    /\ call.variant = 1
    /\ call.fault = "store"
    /\ \E tx \in transactions : tx.userId = call.cred
    /\ call.data.transactions = {}
    /\ call.data.error = ""

\* C20: while a read that has run $connect() still has a store query ahead,
\* no other operation's $disconnect() has closed the shared client.
SharedHandleKept ==
    \A p \in Procs :
        (proc[p].variant = 2 /\ proc[p].pc \in {"user", "rows"}) => connected

\* The caller's rows among the ids of request p, in the store as p found it.
ResolvedBy(p) ==
    {tx \in proc[p].pre.transactions : tx.id \in proc[p].ids /\ tx.userId = proc[p].cred}

\* Both requests ran a bulk delete to its end from the same store, and no
\* store statement was made to fail.
BothDeleted ==
    /\ \A p \in Procs : /\ proc[p].pc = "done"
                        /\ proc[p].op = "bulkDeleteTransactions"
                        /\ proc[p].fault \in {"none", "increment"}
    /\ proc[1].pre = proc[2].pre

\* C15: two bulk deletes in flight together, with disjoint ids that each
\* resolve to rows of the same account, both succeed and leave the account's
\* balance at its initial value plus both calls' reversals.
NoLostUpdates ==
    (/\ BothDeleted
     /\ proc[1].ids \cap proc[2].ids = {}
     /\ \E a \in DOMAIN accounts :
            \A p \in Procs : \E tx \in ResolvedBy(p) : tx.accountId = a)
    => /\ \A p \in Procs : proc[p].result.success
       /\ \A a \in DOMAIN accounts :
            accounts[a].balance =
                proc[1].pre.accounts[a].balance
                + Reversal({tx \in ResolvedBy(1) \cup ResolvedBy(2) : tx.accountId = a})

\* C18: two bulk deletes by one user in flight together, with ids that
\* overlap, move each account's balance by the reversal of the rows that were
\* deleted, each row counted once.
ExactlyOnceReversal ==
    (BothDeleted /\ ResolvedBy(1) \cap ResolvedBy(2) # {})
    => \A a \in DOMAIN accounts :
            accounts[a].balance =
                proc[1].pre.accounts[a].balance
                + Reversal({tx \in proc[1].pre.transactions \ transactions :
                                tx.accountId = a})

====
